---- MODULE Spec2Model ----
(***************************************************************************)
(* State-machine model of the in-memory version control engine             *)
(* (core::Repository and its collaborators).                               *)
(*                                                                         *)
(* Pointers are modelled as indices: a Commit* is the position of the      *)
(* commit in GraphManager::managed_commits_ (1-based), nullptr is 0.       *)
(* std::hash is idealised as an injective function on strings: Hash(s)     *)
(* wraps its input, so two digests are equal exactly when the hashed       *)
(* strings are equal.  String concatenation is kept as concatenation.      *)
(***************************************************************************)
EXTENDS Integers, Sequences, FiniteSets, TLC

VARIABLES
    managed_commits,   \* GraphManager::managed_commits_  (Seq of commit records)
    commit_map,        \* GraphManager::commit_map_       (id -> Commit*)
    blob_storage,      \* GraphManager::blob_storage_     (hash -> content)
    branches,          \* ReferenceManager::branches_     (name -> Commit*)
    current_branch,    \* ReferenceManager::current_branch_ (a branch name)
    staged_files,      \* StagingArea::staged_files_      (Seq of file records)
    last               \* outcome of the last facade operation

vars == <<managed_commits, commit_map, blob_storage, branches,
          current_branch, staged_files, last>>

(***************************************************************************)
(* Bounds and input sets.                                                  *)
(***************************************************************************)
MaxCommits == 4
MaxTime == 0
MaxStaged == 1
GraphSize == 3      \* commits of a hand-built graph (SpecGraph)

\* the paths of the model, listed in lexicographic order
PathOrder == <<"a", "ab", "b", "c">>
\* the paths handed to the direct calls
Paths == {"a", "b", "c"}
\* the (path, content) pairs handed to add
AddInputs == {<<"a", "1">>, <<"a", "2">>, <<"a", "3">>, <<"b", "1">>,
              <<"c", "1">>}
BranchNames == {"master", "f"}
Messages == {"m"}
Authors == {"u"}

NullCommit == 0

(***************************************************************************)
(* Strings.                                                                *)
(***************************************************************************)
Min(a, b) == IF a < b THEN a ELSE b

\* std::string::substr(pos, n) with 0-based pos, clamped to the string's end
Substr(s, pos, n) == SubSeq(s, pos + 1, Min(Len(s), pos + n))

\* std::hash<std::string> rendered as hex: idealised as injective
Hash(s) == "<" \o s \o ">"

\* position of a path in the lexicographic order (std::string operator>)
PathRank(p) == CHOOSE i \in 1..Len(PathOrder) : PathOrder[i] = p

(***************************************************************************)
(* entities::File                                                          *)
(***************************************************************************)
\* File::calculate_hash: hasher(content_ + path_)
FileCalculateHash(path, content) == Hash(content \o path)

\* File::File(path, content)
NewFile(path, content) ==
    [path |-> path, content |-> content, hash |-> FileCalculateHash(path, content)]

\* File(path, "") followed by set_hash_manual(hash): the lightweight form
LightweightFile(path, hash) ==
    [path |-> path, content |-> "", hash |-> hash]

(***************************************************************************)
(* core::StagingArea                                                       *)
(***************************************************************************)
\* the file is appended without looking for its path
AddFile_AlwaysAppends(staged, file) == Append(staged, file)

\* a path staged again is taken out of its place and put at the end
AddFile_MovesToEnd(staged, file) ==
    Append(SelectSeq(staged, LAMBDA f : f.path # file.path), file)

\* StagingArea::add_file: replace in place the first entry with the same
\* path, else push_back
AddFile(staged, file) ==
    IF \E i \in 1..Len(staged) : staged[i].path = file.path
    THEN LET i == CHOOSE k \in 1..Len(staged) :
                      /\ staged[k].path = file.path
                      /\ \A j \in 1..(k - 1) : staged[j].path # file.path
         IN  [staged EXCEPT ![i] = file]
    ELSE Append(staged, file)

\* the emptiness check answers "not empty" whatever is staged
IsEmpty_Never(staged) == FALSE

\* StagingArea::is_empty
IsEmpty(staged) == Len(staged) = 0

(***************************************************************************)
(* core::MerkleTree                                                        *)
(***************************************************************************)
\* one inner while loop of sort_children_by_name: adjacent swaps, left to right
RECURSIVE BubblePass(_, _)
BubblePass(kids, i) ==
    IF i >= Len(kids) THEN kids
    ELSE IF PathRank(kids[i].name) > PathRank(kids[i + 1].name)
         THEN BubblePass([kids EXCEPT ![i] = kids[i + 1], ![i + 1] = kids[i]], i + 1)
         ELSE BubblePass(kids, i + 1)

\* the children get one pass of adjacent swaps only
SortChildrenByName_SinglePass(kids) == BubblePass(kids, 1)

\* MerkleTree::sort_children_by_name: repeat passes until nothing is swapped
RECURSIVE SortChildrenByName(_)
SortChildrenByName(kids) ==
    IF Len(kids) = 0 THEN kids
    ELSE LET pass == BubblePass(kids, 1)
         IN  IF pass = kids THEN kids ELSE SortChildrenByName(pass)

\* MerkleTree::build_from_staging: one BLOB node per file, hashed over
\* "blob " + size + NUL + content, then sorted by name
BuildFromStaging(files) ==
    SortChildrenByName(
        [i \in 1..Len(files) |->
            [name |-> files[i].path,
             hash |-> Hash("blob " \o ToString(Len(files[i].content)) \o "\\0"
                           \o files[i].content)]])

\* the loop of calculate_hashes_recursive over the root's children
RECURSIVE CombinedContent(_, _)
CombinedContent(kids, i) ==
    IF i > Len(kids) THEN ""
    ELSE kids[i].hash \o kids[i].name \o CombinedContent(kids, i + 1)

\* MerkleTree::MerkleTree + get_root_hash
MerkleRootHash(files) ==
    Hash("tree " \o CombinedContent(BuildFromStaging(files), 1))

\* Repository::calculate_tree_hash
CalculateTreeHash(staged) ==
    IF Len(staged) = 0 THEN "empty_tree" ELSE MerkleRootHash(staged)

(***************************************************************************)
(* entities::Commit                                                        *)
(***************************************************************************)
CommitId(commits, c) == commits[c].id

\* Commit::calculate_id
CalculateId(commits, message, author, time, tree_hash, p1, p2) ==
    Hash(message \o author \o ToString(time) \o tree_hash
         \o (IF p1 # NullCommit THEN CommitId(commits, p1) ELSE "")
         \o (IF p2 # NullCommit THEN CommitId(commits, p2) ELSE ""))

\* the commit is constructed without its first parent
NewCommit_NoParent(commits, message, author, time, tree_hash, files, p1, p2) ==
    [id |-> CalculateId(commits, message, author, time, tree_hash, p1, p2),
     message |-> message, author |-> author, time |-> time,
     tree_hash |-> tree_hash, files |-> files,
     parent1 |-> NullCommit, parent2 |-> p2]

\* the first parent link of a commit with a parent is set to the commit itself
NewCommit_SelfParent(commits, message, author, time, tree_hash, files, p1, p2) ==
    [id |-> CalculateId(commits, message, author, time, tree_hash, p1, p2),
     message |-> message, author |-> author, time |-> time,
     tree_hash |-> tree_hash, files |-> files,
     parent1 |-> IF p1 # NullCommit THEN Len(commits) + 1 ELSE p1,
     parent2 |-> p2]

\* the constructor called with the two parents in the other order
NewCommit_SwappedParents(commits, message, author, time, tree_hash, files, p1, p2) ==
    [id |-> CalculateId(commits, message, author, time, tree_hash, p2, p1),
     message |-> message, author |-> author, time |-> time,
     tree_hash |-> tree_hash, files |-> files,
     parent1 |-> p2, parent2 |-> p1]

\* Commit::Commit
NewCommit(commits, message, author, time, tree_hash, files, p1, p2) ==
    [id |-> CalculateId(commits, message, author, time, tree_hash, p1, p2),
     message |-> message, author |-> author, time |-> time,
     tree_hash |-> tree_hash, files |-> files,
     parent1 |-> p1, parent2 |-> p2]

(***************************************************************************)
(* core::GraphManager                                                      *)
(***************************************************************************)
\* HashTable::put on a table modelled as a function
Put(table, key, val) ==
    [k \in (DOMAIN table) \cup {key} |-> IF k = key THEN val ELSE table[k]]

EmptyTable == [k \in {} |-> 0]

\* the commit is inserted at the head of the list, shifting the older ones
AddCommitToList_PushFront(commits, c) == <<c>> \o commits

\* GraphManager::add_commit: managed_commits_.push_back(commit)
AddCommitToList(commits, c) == Append(commits, c)

\* the commit is appended to the list but never put in the map
AddCommitToMap_NotIndexed(map, id, c) == map

\* GraphManager::add_commit: commit_map_.put(commit->get_id(), commit)
AddCommitToMap(map, id, c) == Put(map, id, c)

\* the blob is stored under its content instead of its hash
SaveBlob_KeyedByContent(blobs, hash, content) ==
    IF hash \in DOMAIN blobs THEN blobs ELSE Put(blobs, content, content)

\* every call stores its content, replacing what the key held
SaveBlob_Overwrites(blobs, hash, content) == Put(blobs, hash, content)

\* GraphManager::save_blob: skipped when the hash is already a key
SaveBlob(blobs, hash, content) ==
    IF hash \in DOMAIN blobs THEN blobs ELSE Put(blobs, hash, content)

\* GraphManager::get_blob_content
GetBlobContent(blobs, hash) ==
    IF hash \in DOMAIN blobs THEN blobs[hash] ELSE ""

\* the save_blob loop of Repository::commit / Repository::merge
RECURSIVE SaveStagedBlobs(_, _, _)
SaveStagedBlobs(blobs, staged, i) ==
    IF i > Len(staged) THEN blobs
    ELSE SaveStagedBlobs(SaveBlob(blobs, staged[i].hash, staged[i].content),
                         staged, i + 1)

\* the entries pushed at the front of the list
CommitFiles_PushFront(staged) ==
    [i \in 1..Len(staged) |->
        LightweightFile(staged[Len(staged) + 1 - i].path,
                        staged[Len(staged) + 1 - i].hash)]

\* the lightweight_file loop of Repository::commit / Repository::merge
CommitFiles(staged) ==
    [i \in 1..Len(staged) |-> LightweightFile(staged[i].path, staged[i].hash)]

(***************************************************************************)
(* core::GraphAlgorithms                                                   *)
(***************************************************************************)
\* a walk that follows first parents only
RECURSIVE CollectAncestors_FirstParentOnly(_, _, _)
CollectAncestors_FirstParentOnly(commits, q, ancestors1) ==
    IF Len(q) = 0 THEN ancestors1
    ELSE LET p1 == commits[Head(q)].parent1
         IN  IF p1 # NullCommit /\ commits[p1].id \notin ancestors1
             THEN CollectAncestors_FirstParentOnly(commits, Append(Tail(q), p1),
                                                   ancestors1 \cup {commits[p1].id})
             ELSE CollectAncestors_FirstParentOnly(commits, Tail(q), ancestors1)

\* first loop of find_merge_base: breadth-first walk from c1 over parent
\* edges; q is the queue of Commit*, ancestors1 the set of visited ids
\* one iteration of a loop of find_merge_base with w = [q, seen], q not
\* empty: dequeue the front and enqueue its parents whose id is not in seen
EnqueueParents(commits, w) ==
    LET curr == Head(w.q)
        p1 == commits[curr].parent1
        new1 == p1 # NullCommit /\ commits[p1].id \notin w.seen
        seen1 == IF new1 THEN w.seen \cup {commits[p1].id} ELSE w.seen
        q1 == IF new1 THEN Append(Tail(w.q), p1) ELSE Tail(w.q)
        p2 == commits[curr].parent2
        new2 == p2 # NullCommit /\ commits[p2].id \notin seen1
        seen2 == IF new2 THEN seen1 \cup {commits[p2].id} ELSE seen1
        q2 == IF new2 THEN Append(q1, p2) ELSE q1
    IN  [q |-> q2, seen |-> seen2]

RECURSIVE CollectAncestors(_, _, _)
CollectAncestors(commits, q, ancestors1) ==
    IF Len(q) = 0 THEN ancestors1
    ELSE LET w == EnqueueParents(commits, [q |-> q, seen |-> ancestors1])
         IN  CollectAncestors(commits, w.q, w.seen)

\* second loop of find_merge_base: breadth-first walk from c2, returning
\* the first dequeued commit whose id is in ancestors1
RECURSIVE SearchFromSecond(_, _, _, _)
SearchFromSecond(commits, q, visited2, ancestors1) ==
    IF Len(q) = 0 THEN NullCommit
    ELSE IF commits[Head(q)].id \in ancestors1 THEN Head(q)
    ELSE LET w == EnqueueParents(commits, [q |-> q, seen |-> visited2])
         IN  SearchFromSecond(commits, w.q, w.seen, ancestors1)

\* the two loops take the commits in the other order: the ancestors of c2
\* are collected and the search starts at c1
FindMergeBase_ArgsSwapped(commits, c1, c2) ==
    IF c1 = NullCommit \/ c2 = NullCommit THEN NullCommit
    ELSE IF commits[c1].id = commits[c2].id THEN c1
    ELSE SearchFromSecond(commits, <<c1>>, {commits[c1].id},
                          CollectAncestors(commits, <<c2>>, {commits[c2].id}))

\* GraphAlgorithms::find_merge_base
FindMergeBase(commits, c1, c2) ==
    IF c1 = NullCommit \/ c2 = NullCommit THEN NullCommit
    ELSE IF commits[c1].id = commits[c2].id THEN c1
    ELSE SearchFromSecond(commits, <<c2>>, {commits[c2].id},
                          CollectAncestors(commits, <<c1>>, {commits[c1].id}))

(***************************************************************************)
(* core::MergeEngine                                                       *)
\* the loop of get_history_dfs: st and history are stacks with the top first,
\* visited is the set of ids put in the visited table
\* the walk pushes the parents without looking them up in visited
DfsStep_NoVisitedCheck(commits, w) ==
    LET curr == Head(w.st)
        p1 == commits[curr].parent1
        st1 == IF p1 # NullCommit THEN <<p1>> \o Tail(w.st) ELSE Tail(w.st)
        p2 == commits[curr].parent2
        st2 == IF p2 # NullCommit THEN <<p2>> \o st1 ELSE st1
    IN  [st |-> st2,
         visited |-> w.visited
                        \cup {CommitId(commits, p) : p \in {p1, p2} \ {NullCommit}},
         history |-> <<curr>> \o w.history]

\* one iteration of the loop with w = [st, visited, history], st not empty
DfsStep(commits, w) ==
    LET curr == Head(w.st)
        p1 == commits[curr].parent1
        push1 == p1 # NullCommit /\ CommitId(commits, p1) \notin w.visited
        st1 == IF push1 THEN <<p1>> \o Tail(w.st) ELSE Tail(w.st)
        visited1 == IF push1 THEN w.visited \cup {CommitId(commits, p1)}
                    ELSE w.visited
        p2 == commits[curr].parent2
        push2 == p2 # NullCommit /\ CommitId(commits, p2) \notin visited1
        st2 == IF push2 THEN <<p2>> \o st1 ELSE st1
        visited2 == IF push2 THEN visited1 \cup {CommitId(commits, p2)}
                    ELSE visited1
    IN  [st |-> st2, visited |-> visited2, history |-> <<curr>> \o w.history]

RECURSIVE DfsLoop(_, _, _, _)
DfsLoop(commits, st, visited, history) ==
    IF Len(st) = 0 THEN history
    ELSE LET w == DfsStep(commits, [st |-> st, visited |-> visited,
                                    history |-> history])
         IN  DfsLoop(commits, w.st, w.visited, w.history)

\* GraphAlgorithms::get_history_dfs: the returned stack, top first
GetHistoryDfs(commits, start) ==
    IF start = NullCommit THEN <<>>
    ELSE DfsLoop(commits, <<start>>, {CommitId(commits, start)}, <<>>)

(***************************************************************************)
\* MergeEngine::create_file_map: path -> hash, empty for a null commit
RECURSIVE FileMapOf(_, _, _)
FileMapOf(files, i, map) ==
    IF i > Len(files) THEN map
    ELSE FileMapOf(files, i + 1, Put(map, files[i].path, files[i].hash))

CreateFileMap(commits, c) ==
    IF c = NullCommit THEN EmptyTable
    ELSE FileMapOf(commits[c].files, 1, EmptyTable)

\* "" when the map has no entry for the path
HashIn(map, path) == IF path \in DOMAIN map THEN map[path] ELSE ""

\* the two sides' contents in the other order
ConflictText_SidesSwapped(blobs, hash_ours, hash_theirs, theirs_id) ==
    "<<<<<<< HEAD\n" \o GetBlobContent(blobs, hash_theirs) \o "\n"
    \o "=======\n" \o GetBlobContent(blobs, hash_ours) \o "\n"
    \o ">>>>>>> " \o Substr(theirs_id, 0, 7) \o "\n"

\* the conflict snapshot synthesised for a content conflict
ConflictText(blobs, hash_ours, hash_theirs, theirs_id) ==
    "<<<<<<< HEAD\n" \o GetBlobContent(blobs, hash_ours) \o "\n"
    \o "=======\n" \o GetBlobContent(blobs, hash_theirs) \o "\n"
    \o ">>>>>>> " \o Substr(theirs_id, 0, 7) \o "\n"

\* file_from_theirs built without set_hash_manual
FileFromTheirs_NoManualHash(path, hash_theirs) == NewFile(path, "")

\* file_from_theirs(path, "") followed by set_hash_manual(hash_theirs)
FileFromTheirs(path, hash_theirs) == LightweightFile(path, hash_theirs)

\* a path both sides hold with different hashes is taken from ours, without
\* a report line, when the base has no entry for it
OursStep_BaselessTakesOurs(acc, file, map_theirs, map_base, blobs, theirs_id) ==
    LET path == file.path
        hash_ours == file.hash
        hash_theirs == HashIn(map_theirs, path)
        hash_base == HashIn(map_base, path)
    IN  IF hash_theirs = ""
        THEN IF hash_base = ""
             THEN [acc EXCEPT !.files = Append(@, file)]
             ELSE IF hash_base = hash_ours
             THEN acc
             ELSE [files |-> Append(acc.files, file),
                   conflict_msg |-> Append(acc.conflict_msg,
                                           "CONFLICT (Modify/Delete): " \o path)]
        ELSE IF hash_ours = hash_theirs \/ hash_base = ""
        THEN [acc EXCEPT !.files = Append(@, file)]
        ELSE IF hash_ours = hash_base
        THEN [acc EXCEPT !.files = Append(@, FileFromTheirs(path, hash_theirs))]
        ELSE IF hash_theirs = hash_base
        THEN [acc EXCEPT !.files = Append(@, file)]
        ELSE [files |-> Append(acc.files,
                               NewFile(path, ConflictText(blobs, hash_ours,
                                                          hash_theirs, theirs_id))),
              conflict_msg |-> Append(acc.conflict_msg,
                                      "CONFLICT (Content): " \o path)]

\* body of the loop over ours' files: acc is [files, conflict_msg]
OursStep(acc, file, map_theirs, map_base, blobs, theirs_id) ==
    LET path == file.path
        hash_ours == file.hash
        hash_theirs == HashIn(map_theirs, path)
        hash_base == HashIn(map_base, path)
    IN  IF hash_theirs = ""
        THEN IF hash_base = ""
             THEN [acc EXCEPT !.files = Append(@, file)]
             ELSE IF hash_base = hash_ours
             THEN acc
             ELSE [files |-> Append(acc.files, file),
                   conflict_msg |-> Append(acc.conflict_msg,
                                           "CONFLICT (Modify/Delete): " \o path)]
        ELSE IF hash_ours = hash_theirs
        THEN [acc EXCEPT !.files = Append(@, file)]
        ELSE IF hash_ours = hash_base
        THEN [acc EXCEPT !.files = Append(@, FileFromTheirs(path, hash_theirs))]
        ELSE IF hash_theirs = hash_base
        THEN [acc EXCEPT !.files = Append(@, file)]
        ELSE [files |-> Append(acc.files,
                               NewFile(path, ConflictText(blobs, hash_ours,
                                                          hash_theirs, theirs_id))),
              conflict_msg |-> Append(acc.conflict_msg,
                                      "CONFLICT (Content): " \o path)]

RECURSIVE OursLoop(_, _, _, _, _, _, _)
OursLoop(acc, files, i, map_theirs, map_base, blobs, theirs_id) ==
    IF i > Len(files) THEN acc
    ELSE OursLoop(OursStep(acc, files[i], map_theirs, map_base, blobs, theirs_id),
                  files, i + 1, map_theirs, map_base, blobs, theirs_id)

\* a file deleted by ours and modified by theirs is dropped silently
TheirsStep_DropsModified(acc, file, map_ours, map_base) ==
    IF file.path \in DOMAIN map_ours THEN acc
    ELSE IF HashIn(map_base, file.path) = ""
    THEN [acc EXCEPT !.files = Append(@, file)]
    ELSE acc

\* body of the loop over theirs' files
TheirsStep(acc, file, map_ours, map_base) ==
    LET path == file.path
        hash_base == HashIn(map_base, path)
    IN  IF path \in DOMAIN map_ours THEN acc
        ELSE IF hash_base = ""
        THEN [acc EXCEPT !.files = Append(@, file)]
        ELSE IF file.hash = hash_base
        THEN acc
        ELSE [files |-> Append(acc.files, file),
              conflict_msg |-> Append(acc.conflict_msg,
                                      "CONFLICT (Delete/Modify): " \o path)]

RECURSIVE TheirsLoop(_, _, _, _, _)
TheirsLoop(acc, files, i, map_ours, map_base) ==
    IF i > Len(files) THEN acc
    ELSE TheirsLoop(TheirsStep(acc, files[i], map_ours, map_base),
                    files, i + 1, map_ours, map_base)

\* the loop over theirs' files runs before the loop over ours' files
MergeCommits_TheirsFirst(commits, blobs, ours, theirs) ==
    LET base == FindMergeBase(commits, ours, theirs)
        map_ours == CreateFileMap(commits, ours)
        map_theirs == CreateFileMap(commits, theirs)
        map_base == CreateFileMap(commits, base)
        after_theirs == TheirsLoop([files |-> <<>>, conflict_msg |-> <<>>],
                                   commits[theirs].files, 1, map_ours, map_base)
    IN  OursLoop(after_theirs, commits[ours].files, 1, map_theirs, map_base,
                 blobs, commits[theirs].id)

\* MergeEngine::merge_commits: [files |-> result list, conflict_msg |-> the
\* report, one element per newline-terminated line]
MergeCommits(commits, blobs, ours, theirs) ==
    LET base == FindMergeBase(commits, ours, theirs)
        map_ours == CreateFileMap(commits, ours)
        map_theirs == CreateFileMap(commits, theirs)
        map_base == CreateFileMap(commits, base)
        after_ours == OursLoop([files |-> <<>>, conflict_msg |-> <<>>],
                               commits[ours].files, 1, map_theirs, map_base,
                               blobs, commits[theirs].id)
    IN  TheirsLoop(after_ours, commits[theirs].files, 1, map_ours, map_base)

\* the add_file loop of Repository::merge
RECURSIVE StageAll(_, _, _)
StageAll(staged, files, i) ==
    IF i > Len(files) THEN staged
    ELSE StageAll(AddFile(staged, files[i]), files, i + 1)

\* the merged files are staged on top of whatever was staged
MergeStaging_NoClear(staged_before, files) == StageAll(staged_before, files, 1)

\* Repository::merge: staging_area_.clear() followed by the add_file loop
MergeStaging(staged_before, files) == StageAll(<<>>, files, 1)

\* the tips compared as pointers
SameCommit_ByPointer(commits, c1, c2) == c1 = c2

\* Repository::merge: head_c->get_id() == target_c->get_id()
SameCommit(commits, c1, c2) == commits[c1].id = commits[c2].id

\* the head update moves every branch
UpdateHead_AllBranches(refs, current, new_commit) ==
    [b \in DOMAIN refs |-> new_commit]

\* the head update always lands on the branch named "master"
UpdateHead_AlwaysMaster(refs, current, new_commit) ==
    [refs EXCEPT !["master"] = new_commit]

\* ReferenceManager::update_head: current_branch_->set_last_commit(new_commit)
UpdateHead(refs, current, new_commit) ==
    [refs EXCEPT ![current] = new_commit]

(***************************************************************************)
(* Outcome record of a facade operation.                                   *)
(***************************************************************************)
Outcome(op, arg, status, ret, conflict_msg) ==
    [op |-> op, arg |-> arg, status |-> status, ret |-> ret,
     conflict_msg |-> conflict_msg]

(***************************************************************************)
(* Repository::Repository                                                  *)
(***************************************************************************)
Init ==
    /\ managed_commits = <<>>
    /\ commit_map = EmptyTable
    /\ blob_storage = EmptyTable
    /\ branches = [n \in {"master"} |-> NullCommit]
    /\ current_branch = "master"
    /\ staged_files = <<>>
    /\ last = Outcome("init", "", "ok", "", <<>>)

\* std::time(nullptr) never runs backwards: the earliest value a new commit
\* can read is the latest time already recorded
RECURSIVE LatestTime(_, _)
LatestTime(commits, i) ==
    IF i > Len(commits) THEN 0
    ELSE LET rest == LatestTime(commits, i + 1)
         IN  IF commits[i].time > rest THEN commits[i].time ELSE rest

Times == {t \in 0..MaxTime : t >= LatestTime(managed_commits, 1)}

\* Repository::add, explored while the staging area holds at most max_staged
\* snapshots
AddWithin(max_staged, path, content) ==
    /\ \/ Len(staged_files) < max_staged
       \/ \E i \in 1..Len(staged_files) : staged_files[i].path = path
    /\ staged_files' = AddFile(staged_files, NewFile(path, content))
    /\ last' = Outcome("add", path, "ok", "", <<>>)
    /\ UNCHANGED <<managed_commits, commit_map, blob_storage, branches,
                   current_branch>>

\* Repository::add
Add(path, content) == AddWithin(MaxStaged, path, content)

\* Repository::commit, explored while the store holds fewer than max_commits
\* commits
CommitWithin(max_commits, message, author, time) ==
    IF IsEmpty(staged_files)
    THEN /\ last' = Outcome("commit", message, "EmptyStaging", "", <<>>)
         /\ UNCHANGED <<managed_commits, commit_map, blob_storage, branches,
                        current_branch, staged_files>>
    ELSE LET tree_hash == CalculateTreeHash(staged_files)
             parent == branches[current_branch]
             new_commit == NewCommit(managed_commits, message, author, time,
                                     tree_hash, CommitFiles(staged_files),
                                     parent, NullCommit)
         IN  /\ Len(managed_commits) < max_commits
             /\ blob_storage' = SaveStagedBlobs(blob_storage, staged_files, 1)
             /\ managed_commits' = AddCommitToList(managed_commits, new_commit)
             /\ commit_map' = AddCommitToMap(commit_map, new_commit.id,
                                             Len(managed_commits) + 1)
             /\ branches' = UpdateHead(branches, current_branch,
                                      Len(managed_commits) + 1)
             /\ staged_files' = <<>>
             /\ last' = Outcome("commit", message, "ok", new_commit.id, <<>>)
             /\ UNCHANGED <<current_branch>>

\* Repository::commit
Commit(message, author, time) == CommitWithin(MaxCommits, message, author, time)

\* every name is taken for the name of a branch
BranchExists_Always(refs, name) == TRUE

\* ReferenceManager::get_branch(name) != nullptr / branches_.contains(name)
BranchExists(refs, name) == name \in DOMAIN refs

\* the new branch is created without a tip
CreateBranchRef_NullTip(refs, name, target) == Put(refs, name, NullCommit)

\* ReferenceManager::create_branch past its existence check:
\* branches_.put(name, new Branch(name, target))
CreateBranchRef(refs, name, target) == Put(refs, name, target)

\* create_branch without the check of the current branch's tip
CreateBranch_NoHeadCheck(name) ==
    IF BranchExists(branches, name)
    THEN /\ last' = Outcome("create_branch", name, "AlreadyExists", "", <<>>)
         /\ UNCHANGED <<managed_commits, commit_map, blob_storage, branches,
                        current_branch, staged_files>>
    ELSE /\ branches' = CreateBranchRef(branches, name, branches[current_branch])
         /\ last' = Outcome("create_branch", name, "ok", "", <<>>)
         /\ UNCHANGED <<managed_commits, commit_map, blob_storage,
                        current_branch, staged_files>>

\* Repository::create_branch
CreateBranch(name) ==
    IF branches[current_branch] = NullCommit
    THEN /\ last' = Outcome("create_branch", name, "EmptyHead", "", <<>>)
         /\ UNCHANGED <<managed_commits, commit_map, blob_storage, branches,
                        current_branch, staged_files>>
    ELSE IF BranchExists(branches, name)
    THEN /\ last' = Outcome("create_branch", name, "AlreadyExists", "", <<>>)
         /\ UNCHANGED <<managed_commits, commit_map, blob_storage, branches,
                        current_branch, staged_files>>
    ELSE /\ branches' = CreateBranchRef(branches, name, branches[current_branch])
         /\ last' = Outcome("create_branch", name, "ok", "", <<>>)
         /\ UNCHANGED <<managed_commits, commit_map, blob_storage,
                        current_branch, staged_files>>

\* checkout that also empties the staging area
Checkout_ClearsStaging(name) ==
    IF ~BranchExists(branches, name)
    THEN /\ last' = Outcome("checkout", name, "NotFound", "", <<>>)
         /\ UNCHANGED <<managed_commits, commit_map, blob_storage, branches,
                        current_branch, staged_files>>
    ELSE /\ current_branch' = name
         /\ staged_files' = <<>>
         /\ last' = Outcome("checkout", name, "ok", "", <<>>)
         /\ UNCHANGED <<managed_commits, commit_map, blob_storage, branches>>

\* checkout that makes the name current without looking it up
Checkout_Unchecked(name) ==
    /\ current_branch' = name
    /\ last' = Outcome("checkout", name, "ok", "", <<>>)
    /\ UNCHANGED <<managed_commits, commit_map, blob_storage, branches,
                   staged_files>>

\* Repository::checkout
Checkout(name) ==
    IF ~BranchExists(branches, name)
    THEN /\ last' = Outcome("checkout", name, "NotFound", "", <<>>)
         /\ UNCHANGED <<managed_commits, commit_map, blob_storage, branches,
                        current_branch, staged_files>>
    ELSE /\ current_branch' = name
         /\ last' = Outcome("checkout", name, "ok", "", <<>>)
         /\ UNCHANGED <<managed_commits, commit_map, blob_storage, branches,
                        staged_files>>

\* Repository::merge, explored while the store holds fewer than max_commits
\* commits
MergeWithin(max_commits, branch_name, time) ==
    IF ~BranchExists(branches, branch_name)
    THEN /\ last' = Outcome("merge", branch_name, "NotFound", "", <<>>)
         /\ UNCHANGED <<managed_commits, commit_map, blob_storage, branches,
                        current_branch, staged_files>>
    ELSE IF \/ branches[current_branch] = NullCommit
            \/ branches[branch_name] = NullCommit
    THEN /\ last' = Outcome("merge", branch_name, "Nothing to merge.", "", <<>>)
         /\ UNCHANGED <<managed_commits, commit_map, blob_storage, branches,
                        current_branch, staged_files>>
    ELSE IF SameCommit(managed_commits, branches[current_branch],
                       branches[branch_name])
    THEN /\ last' = Outcome("merge", branch_name, "Already up to date.", "", <<>>)
         /\ UNCHANGED <<managed_commits, commit_map, blob_storage, branches,
                        current_branch, staged_files>>
    ELSE LET head_c == branches[current_branch]
             target_c == branches[branch_name]
             merged == MergeCommits(managed_commits, blob_storage, head_c, target_c)
             staged == MergeStaging(staged_files, merged.files)
             merge_commit == NewCommit(managed_commits,
                                       "Merge branch '" \o branch_name \o "'",
                                       "MergeUser", time,
                                       CalculateTreeHash(staged),
                                       CommitFiles(staged), head_c, target_c)
         IN  IF Len(merged.conflict_msg) # 0
             THEN /\ staged_files' = staged
                  /\ last' = Outcome("merge", branch_name, "MERGE CONFLICT", "",
                                     merged.conflict_msg)
                  /\ UNCHANGED <<managed_commits, commit_map, blob_storage,
                                 branches, current_branch>>
             ELSE /\ Len(managed_commits) < max_commits
                  /\ blob_storage' = SaveStagedBlobs(blob_storage, staged, 1)
                  /\ managed_commits' = AddCommitToList(managed_commits, merge_commit)
                  /\ commit_map' = AddCommitToMap(commit_map, merge_commit.id,
                                                  Len(managed_commits) + 1)
                  /\ branches' = UpdateHead(branches, current_branch,
                                           Len(managed_commits) + 1)
                  /\ staged_files' = <<>>
                  /\ last' = Outcome("merge", branch_name, "Merge successful.",
                                     "", <<>>)
                  /\ UNCHANGED current_branch

\* Repository::merge
Merge(branch_name, time) == MergeWithin(MaxCommits, branch_name, time)

\* Repository::log: the commits in the order the loop pops and prints them
Log ==
    /\ last' = (IF branches[current_branch] = NullCommit
                THEN Outcome("log", "", "No history yet", <<>>, <<>>)
                ELSE Outcome("log", "", "ok",
                             GetHistoryDfs(managed_commits, branches[current_branch]),
                             <<>>))
    /\ UNCHANGED <<managed_commits, commit_map, blob_storage, branches,
                   current_branch, staged_files>>

Next ==
    \/ \E f \in AddInputs : Add(f[1], f[2])
    \/ \E m \in Messages, a \in Authors, t \in Times : Commit(m, a, t)
    \/ \E n \in BranchNames : CreateBranch(n)
    \/ \E n \in BranchNames : Checkout(n)
    \/ \E n \in BranchNames, t \in Times : Merge(n, t)
    \/ Log

Spec == Init /\ [][Next]_vars

(***************************************************************************)
(* The facade together with direct calls of the StagingArea, with a wider  *)
(* staging area and fewer files and commits.                               *)
(***************************************************************************)
MaxStagedWide == 2
MaxCommitsWide == 3
WideInputs == {<<"a", "1">>, <<"a", "2">>, <<"b", "1">>}

\* StagingArea::remove_file
RemoveFile(file_path) ==
    /\ staged_files' =
          (IF \E i \in 1..Len(staged_files) : staged_files[i].path = file_path
           THEN LET idx == CHOOSE i \in 1..Len(staged_files) :
                              /\ staged_files[i].path = file_path
                              /\ \A j \in 1..(i - 1) : staged_files[j].path # file_path
                IN  SubSeq(staged_files, 1, idx - 1)
                       \o SubSeq(staged_files, idx + 1, Len(staged_files))
           ELSE staged_files)
    /\ last' = Outcome("remove_file", file_path, "ok", "", <<>>)
    /\ UNCHANGED <<managed_commits, commit_map, blob_storage, branches,
                   current_branch>>

\* StagingArea::clear
ClearStaging ==
    /\ staged_files' = <<>>
    /\ last' = Outcome("clear", "", "ok", "", <<>>)
    /\ UNCHANGED <<managed_commits, commit_map, blob_storage, branches,
                   current_branch>>

NextWide ==
    \/ \E f \in WideInputs : AddWithin(MaxStagedWide, f[1], f[2])
    \/ \E path \in Paths : RemoveFile(path)
    \/ ClearStaging
    \/ \E m \in Messages, a \in Authors, t \in Times :
          CommitWithin(MaxCommitsWide, m, a, t)
    \/ \E n \in BranchNames : CreateBranch(n)
    \/ \E n \in BranchNames : Checkout(n)
    \/ \E n \in BranchNames, t \in Times : MergeWithin(MaxCommitsWide, n, t)

SpecWide == Init /\ [][NextWide]_vars

(***************************************************************************)
(* The facade with longer histories of fewer files.                        *)
(***************************************************************************)
MaxCommitsDeep == 5
DeepInputs == {<<"a", "1">>, <<"a", "2">>}

NextDeep ==
    \/ \E f \in DeepInputs : Add(f[1], f[2])
    \/ \E m \in Messages, a \in Authors, t \in Times :
          CommitWithin(MaxCommitsDeep, m, a, t)
    \/ \E n \in BranchNames : CreateBranch(n)
    \/ \E n \in BranchNames : Checkout(n)
    \/ \E n \in BranchNames, t \in Times : MergeWithin(MaxCommitsDeep, n, t)
    \/ Log

SpecDeep == Init /\ [][NextDeep]_vars

(***************************************************************************)
(* The facade with two files whose content followed by the path is the     *)
(* same string.                                                            *)
(***************************************************************************)
MaxCommitsConcat == 3
ConcatInputs == {<<"ab", "c">>, <<"b", "ca">>}

NextConcat ==
    \/ \E f \in ConcatInputs : Add(f[1], f[2])
    \/ \E m \in Messages, a \in Authors, t \in Times :
          CommitWithin(MaxCommitsConcat, m, a, t)
    \/ \E n \in BranchNames : CreateBranch(n)
    \/ \E n \in BranchNames : Checkout(n)
    \/ \E n \in BranchNames, t \in Times : MergeWithin(MaxCommitsConcat, n, t)
    \/ Log

SpecConcat == Init /\ [][NextConcat]_vars

(***************************************************************************)
(* The facade with two paths of one content each, a staging area of two    *)
(* files and histories of four commits.                                    *)
(***************************************************************************)
MaxStagedPair == 2
MaxCommitsPair == 4
PairInputs == {<<"a", "1">>, <<"b", "1">>}

NextPair ==
    \/ \E f \in PairInputs : AddWithin(MaxStagedPair, f[1], f[2])
    \/ \E m \in Messages, a \in Authors, t \in Times :
          CommitWithin(MaxCommitsPair, m, a, t)
    \/ \E n \in BranchNames : CreateBranch(n)
    \/ \E n \in BranchNames : Checkout(n)
    \/ \E n \in BranchNames, t \in Times : MergeWithin(MaxCommitsPair, n, t)

SpecPair == Init /\ [][NextPair]_vars

(***************************************************************************)
(* GraphAlgorithms used directly on a commit graph built with the Commit   *)
(* constructor: any parents among the commits constructed earlier.         *)
(***************************************************************************)
\* ps[i] = <<p1, p2>>: the commits are constructed in order, the i-th with
\* its own message and the parents ps[i] among the commits before it
RECURSIVE BuildGraph(_, _, _)
BuildGraph(ps, i, commits) ==
    IF i > Len(ps) THEN commits
    ELSE BuildGraph(ps, i + 1,
                    Append(commits,
                           NewCommit(commits, "c" \o ToString(i), "u", 0,
                                     "empty_tree", <<>>, ps[i][1], ps[i][2])))

\* the graphs of n commits whose parents were constructed before them
Graphs(n) ==
    {BuildGraph(ps, 1, <<>>) :
        ps \in {f \in [1..n -> (0..(n - 1)) \X (0..(n - 1))] :
                   \A i \in 1..n : f[i][1] < i /\ f[i][2] < i}}

InitGraph ==
    /\ managed_commits \in UNION {Graphs(n) : n \in 1..GraphSize}
    /\ commit_map = [id \in {managed_commits[i].id : i \in 1..Len(managed_commits)} |->
                        CHOOSE i \in 1..Len(managed_commits) : managed_commits[i].id = id]
    /\ blob_storage = EmptyTable
    /\ branches = [n \in {"master"} |-> NullCommit]
    /\ current_branch = "master"
    /\ staged_files = <<>>
    /\ last = Outcome("init", "", "ok", "", <<>>)

\* a call of GraphAlgorithms::find_merge_base(c1, c2)
CallFindMergeBase(c1, c2) ==
    /\ last' = Outcome("find_merge_base", <<c1, c2>>, "ok",
                       FindMergeBase(managed_commits, c1, c2), <<>>)
    /\ UNCHANGED <<managed_commits, commit_map, blob_storage, branches,
                   current_branch, staged_files>>

NextGraph ==
    \E c1 \in 0..Len(managed_commits), c2 \in 0..Len(managed_commits) :
        CallFindMergeBase(c1, c2)

SpecGraph == InitGraph /\ [][NextGraph]_vars

(***************************************************************************)
(* The blob store called directly: GraphManager::save_blob and             *)
(* GraphManager::get_blob_content with hashes and contents chosen by the   *)
(* caller.                                                                 *)
(***************************************************************************)
BlobHashes == {"h1", "h2", "h3"}
BlobContents == {"", "x", "y"}

\* a call of GraphManager::save_blob(hash, content)
CallSaveBlob(hash, content) ==
    /\ blob_storage' = SaveBlob(blob_storage, hash, content)
    /\ last' = Outcome("save_blob", <<hash, content>>, "ok", "", <<>>)
    /\ UNCHANGED <<managed_commits, commit_map, branches, current_branch,
                   staged_files>>

\* a call of GraphManager::get_blob_content(hash)
CallGetBlobContent(hash) ==
    /\ last' = Outcome("get_blob_content", hash, "ok",
                       GetBlobContent(blob_storage, hash), <<>>)
    /\ UNCHANGED <<managed_commits, commit_map, blob_storage, branches,
                   current_branch, staged_files>>

NextBlob ==
    \/ \E hash \in BlobHashes, content \in BlobContents :
          CallSaveBlob(hash, content)
    \/ \E hash \in BlobHashes : CallGetBlobContent(hash)

SpecBlob == Init /\ [][NextBlob]_vars

(***************************************************************************)
(* The tree digest called directly: Repository::calculate_tree_hash over   *)
(* every staging list of distinct paths, in every insertion order.         *)
(***************************************************************************)
MaxTreeFiles == 3
TreeContents == {"", "1", "2"}

\* the staging lists of at most MaxTreeFiles files with distinct paths
StagedLists ==
    UNION {{[i \in 1..n |-> NewFile(s[i][1], s[i][2])] :
               s \in {t \in [1..n -> Paths \X TreeContents] :
                         \A i, j \in 1..n : t[i][1] = t[j][1] => i = j}} :
           n \in 0..MaxTreeFiles}

InitTree ==
    /\ managed_commits = <<>>
    /\ commit_map = EmptyTable
    /\ blob_storage = EmptyTable
    /\ branches = [n \in {"master"} |-> NullCommit]
    /\ current_branch = "master"
    /\ staged_files \in StagedLists
    /\ last = Outcome("init", "", "ok", "", <<>>)

\* a call of Repository::calculate_tree_hash on the staging area
CallCalculateTreeHash ==
    /\ last' = Outcome("calculate_tree_hash", "", "ok",
                       CalculateTreeHash(staged_files), <<>>)
    /\ UNCHANGED <<managed_commits, commit_map, blob_storage, branches,
                   current_branch, staged_files>>

NextTree == CallCalculateTreeHash

SpecTree == InitTree /\ [][NextTree]_vars

(***************************************************************************)
(* The merge engine called directly on a fork: a root commit r, and two    *)
(* commits x and y made on top of it on two branches, each from a staging  *)
(* list of its own.                                                        *)
(***************************************************************************)
MaxMergeFiles == 2
MergeContents == {"1", "2"}

\* the non-empty staging lists of at most MaxMergeFiles files with distinct
\* paths
MergeStagings ==
    UNION {{[i \in 1..n |-> NewFile(s[i][1], s[i][2])] :
               s \in {t \in [1..n -> Paths \X MergeContents] :
                         \A i, j \in 1..n : t[i][1] = t[j][1] => i = j}} :
           n \in 1..MaxMergeFiles}

\* the commit Repository::commit builds from a staging list
CommitOf(commits, message, staged, parent) ==
    NewCommit(commits, message, "u", 0, CalculateTreeHash(staged),
              CommitFiles(staged), parent, NullCommit)

\* the store after commit r on master, create_branch f, commit x on master,
\* checkout f, commit y on f
ForkStore(staged_r, staged_x, staged_y) ==
    LET r == CommitOf(<<>>, "r", staged_r, NullCommit)
        x == CommitOf(<<r>>, "x", staged_x, 1)
        y == CommitOf(<<r, x>>, "y", staged_y, 1)
    IN  <<r, x, y>>

InitMerge ==
    \E staged_r \in MergeStagings, staged_x \in MergeStagings,
       staged_y \in MergeStagings :
        /\ managed_commits = ForkStore(staged_r, staged_x, staged_y)
        /\ commit_map = [id \in {managed_commits[i].id : i \in 1..3} |->
                            CHOOSE i \in 1..3 : managed_commits[i].id = id]
        /\ blob_storage =
              SaveStagedBlobs(SaveStagedBlobs(SaveStagedBlobs(EmptyTable,
                  staged_r, 1), staged_x, 1), staged_y, 1)
        /\ branches = [n \in {"master", "f"} |-> IF n = "master" THEN 2 ELSE 3]
        /\ current_branch = "f"
        /\ staged_files = <<>>
        /\ last = Outcome("init", "", "ok", "", <<>>)

\* a call of MergeEngine::merge_commits(ours, theirs, graph_mgr, msg)
CallMergeCommits(ours, theirs) ==
    LET result == MergeCommits(managed_commits, blob_storage, ours, theirs)
    IN  /\ last' = Outcome("merge_commits", <<ours, theirs>>, "ok",
                           result.files, result.conflict_msg)
        /\ UNCHANGED <<managed_commits, commit_map, blob_storage, branches,
                       current_branch, staged_files>>

NextMerge ==
    \E ours \in 1..Len(managed_commits), theirs \in 1..Len(managed_commits) :
        /\ ours # theirs
        /\ CallMergeCommits(ours, theirs)

SpecMerge == InitMerge /\ [][NextMerge]_vars

(***************************************************************************)
(* The merge engine called directly on two commits without a common        *)
(* ancestor: two parentless commits x and y built with the Commit          *)
(* constructor, each from a staging list of its own.                       *)
(***************************************************************************)
\* the store holding two parentless commits
RootsStore(staged_x, staged_y) ==
    LET x == CommitOf(<<>>, "x", staged_x, NullCommit)
        y == CommitOf(<<x>>, "y", staged_y, NullCommit)
    IN  <<x, y>>

InitBaseless ==
    \E staged_x \in MergeStagings, staged_y \in MergeStagings :
        /\ managed_commits = RootsStore(staged_x, staged_y)
        /\ commit_map = [id \in {managed_commits[i].id : i \in 1..2} |->
                            CHOOSE i \in 1..2 : managed_commits[i].id = id]
        /\ blob_storage =
              SaveStagedBlobs(SaveStagedBlobs(EmptyTable, staged_x, 1),
                              staged_y, 1)
        /\ branches = [n \in {"master"} |-> 1]
        /\ current_branch = "master"
        /\ staged_files = <<>>
        /\ last = Outcome("init", "", "ok", "", <<>>)

SpecBaseless == InitBaseless /\ [][NextMerge]_vars

(***************************************************************************)
(* GraphAlgorithms run one loop iteration at a time on any finite graph of *)
(* commit records, malformed ones included: the parents of a commit are    *)
(* any commits of the graph, itself and later ones too.  last holds the    *)
(* call in progress: its locals while it runs, its result when it is done. *)
(***************************************************************************)
WalkSize == 3

\* the graphs of n commits with distinct ids and arbitrary parent links
AnyGraphs(n) ==
    {[i \in 1..n |->
         [id |-> "c" \o ToString(i), message |-> "m", author |-> "u",
          time |-> 0, tree_hash |-> "empty_tree", files |-> <<>>,
          parent1 |-> ps[i][1], parent2 |-> ps[i][2]]] :
        ps \in [1..n -> (0..n) \X (0..n)]}

InitWalk ==
    /\ managed_commits \in UNION {AnyGraphs(n) : n \in 1..WalkSize}
    /\ commit_map = [id \in {managed_commits[i].id : i \in 1..Len(managed_commits)} |->
                        CHOOSE i \in 1..Len(managed_commits) : managed_commits[i].id = id]
    /\ blob_storage = EmptyTable
    /\ branches = [n \in {"master"} |-> NullCommit]
    /\ current_branch = "master"
    /\ staged_files = <<>>
    /\ last = Outcome("init", "", "ok", "", <<>>)

\* get_history_dfs(start) up to its loop
StartGetHistoryDfs(start) ==
    /\ last.status # "running"
    /\ last' = (IF start = NullCommit
                THEN Outcome("get_history_dfs", start, "done", <<>>, <<>>)
                ELSE Outcome("get_history_dfs", start, "running",
                             [st |-> <<start>>,
                              visited |-> {CommitId(managed_commits, start)},
                              history |-> <<>>], <<>>))
    /\ UNCHANGED <<managed_commits, commit_map, blob_storage, branches,
                   current_branch, staged_files>>

\* the loop test of get_history_dfs and one iteration, or the return
StepGetHistoryDfs ==
    /\ last.op = "get_history_dfs"
    /\ last.status = "running"
    /\ last' = (IF Len(last.ret.st) = 0
                THEN [last EXCEPT !.status = "done", !.ret = last.ret.history]
                ELSE [last EXCEPT !.ret = DfsStep(managed_commits, last.ret)])
    /\ UNCHANGED <<managed_commits, commit_map, blob_storage, branches,
                   current_branch, staged_files>>

\* find_merge_base(c1, c2) up to its first loop
StartFindMergeBase(c1, c2) ==
    /\ last.status # "running"
    /\ last' = (IF c1 = NullCommit \/ c2 = NullCommit
                THEN Outcome("find_merge_base", <<c1, c2>>, "done", NullCommit, <<>>)
                ELSE IF managed_commits[c1].id = managed_commits[c2].id
                THEN Outcome("find_merge_base", <<c1, c2>>, "done", c1, <<>>)
                ELSE Outcome("find_merge_base", <<c1, c2>>, "running",
                             [phase |-> "ancestors", q |-> <<c1>>,
                              seen |-> {managed_commits[c1].id},
                              ancestors1 |-> {}], <<>>))
    /\ UNCHANGED <<managed_commits, commit_map, blob_storage, branches,
                   current_branch, staged_files>>

\* one loop test of find_merge_base with what follows it: an iteration of
\* the first loop, the set-up of the second loop, an iteration of the second
\* loop, or a return
StepFindMergeBase ==
    /\ last.op = "find_merge_base"
    /\ last.status = "running"
    /\ LET w == last.ret
           next == EnqueueParents(managed_commits, [q |-> w.q, seen |-> w.seen])
       IN  last' =
             (IF w.phase = "ancestors"
              THEN IF Len(w.q) = 0
                   THEN [last EXCEPT !.ret =
                            [phase |-> "search", q |-> <<last.arg[2]>>,
                             seen |-> {managed_commits[last.arg[2]].id},
                             ancestors1 |-> w.seen]]
                   ELSE [last EXCEPT !.ret.q = next.q, !.ret.seen = next.seen]
              ELSE IF Len(w.q) = 0
                   THEN [last EXCEPT !.status = "done", !.ret = NullCommit]
              ELSE IF managed_commits[Head(w.q)].id \in w.ancestors1
                   THEN [last EXCEPT !.status = "done", !.ret = Head(w.q)]
              ELSE [last EXCEPT !.ret.q = next.q, !.ret.seen = next.seen])
    /\ UNCHANGED <<managed_commits, commit_map, blob_storage, branches,
                   current_branch, staged_files>>

NextWalk ==
    \/ \E start \in 0..Len(managed_commits) : StartGetHistoryDfs(start)
    \/ StepGetHistoryDfs
    \/ \E c1 \in 0..Len(managed_commits), c2 \in 0..Len(managed_commits) :
          StartFindMergeBase(c1, c2)
    \/ StepFindMergeBase

SpecWalk == InitWalk /\ [][NextWalk]_vars

(***************************************************************************)
(* Vocabulary of the properties.                                           *)
(***************************************************************************)
CommitPtrs == 1..Len(managed_commits)

\* commits reachable from c over parent edges, c included
RECURSIVE Reachable(_, _)
Reachable(commits, c) ==
    IF c = NullCommit THEN {}
    ELSE {c} \cup Reachable(commits, commits[c].parent1)
             \cup Reachable(commits, commits[c].parent2)

\* ids of the commits reachable from c
ReachableIds(commits, c) == {commits[d].id : d \in Reachable(commits, c)}

PathsOf(files) == {files[i].path : i \in 1..Len(files)}
Range(seq) == {seq[i] : i \in 1..Len(seq)}

\* the entry a file list holds for a path (paths are unique in a list)
EntryFor(files, path) ==
    files[CHOOSE i \in 1..Len(files) : files[i].path = path]

\* number of positions of seq holding x
Count(seq, x) == Cardinality({i \in 1..Len(seq) : seq[i] = x})

\* this step is merge(n) getting past the early returns, i.e. running the
\* merge engine on the two tips
MergeRuns(n) ==
    /\ last'.op = "merge"
    /\ last'.arg = n
    /\ n \in DOMAIN branches
    /\ branches[current_branch] # NullCommit
    /\ branches[n] # NullCommit
    /\ managed_commits[branches[current_branch]].id # managed_commits[branches[n]].id

\* what the merge engine returns for merge(n) in the current state
EngineResult(n) ==
    MergeCommits(managed_commits, blob_storage, branches[current_branch], branches[n])


(***************************************************************************)
(* Scenario S3: both tips are plain commits made directly on the same root *)
(* commit, and base, ours and theirs committed pairwise different paths.   *)
(***************************************************************************)
S3Trace(n) ==
    LET ours == managed_commits[branches[current_branch]]
        theirs == managed_commits[branches[n]]
    IN  /\ MergeRuns(n)
        /\ ours.parent2 = NullCommit /\ theirs.parent2 = NullCommit
        /\ ours.parent1 # NullCommit /\ ours.parent1 = theirs.parent1
        /\ managed_commits[ours.parent1].parent1 = NullCommit
        /\ PathsOf(ours.files) \cap PathsOf(theirs.files) = {}
        /\ PathsOf(managed_commits[ours.parent1].files)
              \cap (PathsOf(ours.files) \cup PathsOf(theirs.files)) = {}

\* C1: after the S3 trace (a root commit on master, one commit of a new path
\* on branch f, one commit of another new path on master, merge("f")) the
\* merge reports no conflicts and the merge commit's file set holds the
\* root commit's paths together with the paths each side added.
C1_CleanMergeKeepsBaseFiles ==
    [][\A n \in BranchNames :
          S3Trace(n) =>
              LET ours == managed_commits[branches[current_branch]]
                  theirs == managed_commits[branches[n]]
                  base == managed_commits[ours.parent1]
              IN  /\ last'.status = "Merge successful."
                  /\ Len(managed_commits') = Len(managed_commits) + 1
                  /\ PathsOf(base.files) \cup PathsOf(ours.files)
                        \cup PathsOf(theirs.files)
                        \subseteq PathsOf(managed_commits'[branches'[current_branch']].files)
      ]_vars

\* commits (by id) that are ancestors of both a and b, each included
CommonAncestors(commits, a, b) ==
    {c \in 1..Len(commits) :
        commits[c].id \in ReachableIds(commits, a) \cap ReachableIds(commits, b)}

\* d is a proper descendant of c
ProperDescendant(commits, d, c) ==
    /\ commits[d].id # commits[c].id
    /\ commits[c].id \in ReachableIds(commits, d)

\* c is a lowest common ancestor of a and b
IsLowestCommonAncestor(commits, c, a, b) ==
    /\ c \in CommonAncestors(commits, a, b)
    /\ \A d \in CommonAncestors(commits, a, b) : ~ProperDescendant(commits, d, c)

\* C2: for any two stored commits that share an ancestor, find_merge_base
\* returns a lowest common ancestor: a common ancestor of which no other
\* common ancestor is a proper descendant.
C2_MergeBaseIsLowest ==
    \A a \in CommitPtrs, b \in CommitPtrs :
        CommonAncestors(managed_commits, a, b) # {} =>
            /\ FindMergeBase(managed_commits, a, b) # NullCommit
            /\ IsLowestCommonAncestor(managed_commits,
                                      FindMergeBase(managed_commits, a, b), a, b)

ConflictKinds == {"Modify/Delete", "Delete/Modify", "Content"}

\* the report has no line about the path
NoConflictLine(report, path) ==
    \A kind \in ConflictKinds :
        Count(report, "CONFLICT (" \o kind \o "): " \o path) = 0

\* the report has exactly one line about the path, of the given kind
OneConflictLine(report, kind, path) ==
    \A k \in ConflictKinds :
        Count(report, "CONFLICT (" \o k \o "): " \o path) = (IF k = kind THEN 1 ELSE 0)

\* the list has exactly one entry for the path
OneEntry(files, path) ==
    Cardinality({i \in 1..Len(files) : files[i].path = path}) = 1

\* hashes of a path in ours, theirs and the merge base of merge(n)
HashOurs(n, path) ==
    HashIn(CreateFileMap(managed_commits, branches[current_branch]), path)
HashTheirs(n, path) ==
    HashIn(CreateFileMap(managed_commits, branches[n]), path)
HashBase(n, path) ==
    HashIn(CreateFileMap(managed_commits,
                         FindMergeBase(managed_commits, branches[current_branch],
                                       branches[n])), path)

\* C4: when merge(n) runs the merge engine and the report is empty, exactly
\* one commit is stored, a merge commit with parent1 the current branch's
\* previous tip, parent2 the named branch's tip, author "MergeUser" and
\* message "Merge branch '<n>'"; the current branch points to it, the named
\* branch's tip is unchanged and staging is empty.
C4_CleanMergeCreatesMergeCommit ==
    [][\A n \in BranchNames :
          (MergeRuns(n) /\ Len(EngineResult(n).conflict_msg) = 0) =>
              LET new == Len(managed_commits) + 1
              IN  /\ Len(managed_commits') = new
                  /\ SubSeq(managed_commits', 1, Len(managed_commits)) = managed_commits
                  /\ managed_commits'[new].parent1 = branches[current_branch]
                  /\ managed_commits'[new].parent2 = branches[n]
                  /\ managed_commits'[new].author = "MergeUser"
                  /\ managed_commits'[new].message = "Merge branch '" \o n \o "'"
                  /\ managed_commits'[new].id \in DOMAIN commit_map'
                  /\ commit_map'[managed_commits'[new].id] = new
                  /\ current_branch' = current_branch
                  /\ DOMAIN branches' = DOMAIN branches
                  /\ branches'[current_branch] = new
                  /\ branches'[n] = branches[n]
                  /\ staged_files' = <<>>
      ]_vars

\* a clean merge has just created a merge commit on the current branch
C4_Witness ==
    /\ last.op = "merge"
    /\ last.status = "Merge successful."
    /\ branches[current_branch] = Len(managed_commits)
    /\ managed_commits[Len(managed_commits)].parent2 = branches[last.arg]
    /\ managed_commits[Len(managed_commits)].parent1 # NullCommit
    /\ staged_files = <<>>

\* C5: when merge(n) runs the merge engine and the report is not empty, the
\* operation completes without an error, no commit is added, no branch tip
\* moves, and staging holds exactly the engine's result list, in result
\* order, whatever was staged before.
C5_ConflictedMergeStagesResult ==
    [][\A n \in BranchNames :
          (MergeRuns(n) /\ Len(EngineResult(n).conflict_msg) # 0) =>
              /\ last'.status = "MERGE CONFLICT"
              /\ last'.conflict_msg = EngineResult(n).conflict_msg
              /\ managed_commits' = managed_commits
              /\ commit_map' = commit_map
              /\ branches' = branches
              /\ current_branch' = current_branch
              /\ staged_files' = EngineResult(n).files
      ]_vars

\* a conflicted merge has replaced a staged file that is not in its result
C5_Witness ==
    /\ last.op = "merge"
    /\ last.status = "MERGE CONFLICT"
    /\ Len(staged_files) = 2
    /\ staged_files = EngineResult(last.arg).files

\* C6: merge(n) of an existing branch is a no-op when either tip is null
\* ("Nothing to merge.") or both tips have the same id ("Already up to
\* date."): no commit is created, no tip moves, staging stays as it was.
C6_MergeNoOp ==
    [][\A n \in BranchNames :
          (/\ last'.op = "merge" /\ last'.arg = n
           /\ n \in DOMAIN branches
           /\ \/ branches[current_branch] = NullCommit
              \/ branches[n] = NullCommit
              \/ managed_commits[branches[current_branch]].id
                   = managed_commits[branches[n]].id) =>
              /\ last'.status =
                    (IF branches[current_branch] = NullCommit \/ branches[n] = NullCommit
                     THEN "Nothing to merge." ELSE "Already up to date.")
              /\ UNCHANGED <<managed_commits, commit_map, blob_storage, branches,
                             current_branch, staged_files>>
      ]_vars

\* "Already up to date." for two branches, with a file staged
C6_Witness ==
    /\ last.op = "merge"
    /\ last.status = "Already up to date."
    /\ last.arg # current_branch
    /\ Len(staged_files) > 0

\* C7: a path in ours and theirs whose hashes differ from each other and
\* from the base hash gets exactly one result snapshot, with content
\* "<<<<<<< HEAD\n" ours "\n=======\n" theirs "\n>>>>>>> " id7 "\n", and
\* exactly one report line "CONFLICT (Content): <path>"; when both tips hold
\* just that path (S4) the report is exactly that line.
C7_ContentConflict ==
    [][\A n \in BranchNames, path \in Paths :
          (/\ MergeRuns(n)
           /\ HashOurs(n, path) # "" /\ HashTheirs(n, path) # ""
           /\ HashOurs(n, path) # HashTheirs(n, path)
           /\ HashOurs(n, path) # HashBase(n, path)
           /\ HashTheirs(n, path) # HashBase(n, path)) =>
              LET text == "<<<<<<< HEAD\n"
                            \o GetBlobContent(blob_storage, HashOurs(n, path))
                            \o "\n=======\n"
                            \o GetBlobContent(blob_storage, HashTheirs(n, path))
                            \o "\n>>>>>>> "
                            \o SubSeq(managed_commits[branches[n]].id, 1, 7)
                            \o "\n"
              IN  /\ OneEntry(EngineResult(n).files, path)
                  /\ EntryFor(EngineResult(n).files, path).content = text
                  /\ OneConflictLine(EngineResult(n).conflict_msg, "Content", path)
                  /\ OneEntry(staged_files', path)
                  /\ EntryFor(staged_files', path).content = text
                  /\ (/\ PathsOf(managed_commits[branches[current_branch]].files) = {path}
                      /\ PathsOf(managed_commits[branches[n]].files) = {path})
                        => last'.conflict_msg = <<"CONFLICT (Content): " \o path>>
      ]_vars

\* scenario S4: base, ours and theirs hold path a with three different
\* contents, and the merge has staged the conflict snapshot
C7_Witness ==
    /\ last.op = "merge"
    /\ last.conflict_msg = <<"CONFLICT (Content): a">>
    /\ HashBase(last.arg, "a") \notin {"", HashOurs(last.arg, "a"), HashTheirs(last.arg, "a")}
    /\ Len(staged_files) = 1
    /\ staged_files[1].path = "a"
    /\ Substr(staged_files[1].content, 0, 13) = "<<<<<<< HEAD\n"

\* C8: for a path of base, ours holding it with another hash while theirs
\* lacks it keeps ours' entry and reports "CONFLICT (Modify/Delete): <path>";
\* theirs holding it with another hash while ours lacks it keeps theirs'
\* entry and reports "CONFLICT (Delete/Modify): <path>".
C8_ModifyDeleteConflicts ==
    [][\A n \in BranchNames, path \in Paths :
          (MergeRuns(n) /\ HashBase(n, path) # "") =>
              /\ (/\ HashOurs(n, path) \notin {"", HashBase(n, path)}
                  /\ HashTheirs(n, path) = "") =>
                     /\ OneEntry(EngineResult(n).files, path)
                     /\ EntryFor(EngineResult(n).files, path)
                          = EntryFor(managed_commits[branches[current_branch]].files, path)
                     /\ OneConflictLine(last'.conflict_msg, "Modify/Delete", path)
              /\ (/\ HashOurs(n, path) = ""
                  /\ HashTheirs(n, path) \notin {"", HashBase(n, path)}) =>
                     /\ OneEntry(EngineResult(n).files, path)
                     /\ EntryFor(EngineResult(n).files, path)
                          = EntryFor(managed_commits[branches[n]].files, path)
                     /\ OneConflictLine(last'.conflict_msg, "Delete/Modify", path)
      ]_vars

\* a merge has reported a Delete/Modify conflict and staged theirs' entry
C8_Witness ==
    /\ last.op = "merge"
    /\ \E path \in Paths :
          /\ Count(last.conflict_msg, "CONFLICT (Delete/Modify): " \o path) = 1
          /\ HashOurs(last.arg, path) = ""
          /\ \E i \in 1..Len(staged_files) :
                /\ staged_files[i].path = path
                /\ staged_files[i].hash = HashTheirs(last.arg, path)

\* C9: the rows of the decision table that do not conflict: (i) equal
\* hashes on both sides give ours' entry, (ii) a path absent from base and
\* present on one side only gives that side's entry, (iii) ours equal to
\* base with theirs present and different gives an entry with theirs' hash,
\* (iv) theirs equal to base with ours present and different gives ours'
\* entry; none of them adds a report line for the path.
C9_NonConflictingRows ==
    [][\A n \in BranchNames, path \in Paths :
          MergeRuns(n) =>
              LET hO == HashOurs(n, path)
                  hT == HashTheirs(n, path)
                  hB == HashBase(n, path)
                  res == EngineResult(n)
                  ours_entry == EntryFor(managed_commits[branches[current_branch]].files, path)
                  theirs_entry == EntryFor(managed_commits[branches[n]].files, path)
              IN  /\ (hO # "" /\ hO = hT) =>
                        /\ OneEntry(res.files, path)
                        /\ EntryFor(res.files, path) = ours_entry
                        /\ NoConflictLine(res.conflict_msg, path)
                  /\ (hB = "" /\ hO # "" /\ hT = "") =>
                        /\ OneEntry(res.files, path)
                        /\ EntryFor(res.files, path) = ours_entry
                        /\ NoConflictLine(res.conflict_msg, path)
                  /\ (hB = "" /\ hO = "" /\ hT # "") =>
                        /\ OneEntry(res.files, path)
                        /\ EntryFor(res.files, path) = theirs_entry
                        /\ NoConflictLine(res.conflict_msg, path)
                  /\ (hO # "" /\ hB = hO /\ hT # "" /\ hT # hO) =>
                        /\ OneEntry(res.files, path)
                        /\ EntryFor(res.files, path).hash = hT
                        /\ NoConflictLine(res.conflict_msg, path)
                  /\ (hT # "" /\ hB = hT /\ hO # "" /\ hO # hT) =>
                        /\ OneEntry(res.files, path)
                        /\ EntryFor(res.files, path) = ours_entry
                        /\ NoConflictLine(res.conflict_msg, path)
      ]_vars

\* a clean merge took theirs' changed version of a path ours had left as in
\* base: the merge commit carries theirs' hash for it
C9_Witness ==
    /\ last.op = "merge"
    /\ last.status = "Merge successful."
    /\ LET m == managed_commits[Len(managed_commits)]
       IN  /\ m.parent1 # NullCommit /\ m.parent2 # NullCommit
           /\ \E path \in Paths :
                 LET hO == HashIn(CreateFileMap(managed_commits, m.parent1), path)
                     hT == HashIn(CreateFileMap(managed_commits, m.parent2), path)
                     hB == HashIn(CreateFileMap(managed_commits,
                                    FindMergeBase(managed_commits, m.parent1, m.parent2)),
                                  path)
                 IN  /\ hO # "" /\ hT # "" /\ hO # hT /\ hB = hO
                     /\ OneEntry(m.files, path)
                     /\ EntryFor(m.files, path).hash = hT

(***************************************************************************)
(* Properties of Repository::commit.                                       *)
(***************************************************************************)
\* C10: commit with non-empty staging stores exactly one new commit whose
\* parent1 is the current branch's previous tip (null for the first commit)
\* and whose parent2 is absent, points the current branch to it and returns
\* its id; also for the commit that follows a conflicted merge.
C10_CommitLinksToTip ==
    [][(last'.op = "commit" /\ Len(staged_files) # 0) =>
          LET new == Len(managed_commits) + 1
          IN  /\ last'.status = "ok"
              /\ Len(managed_commits') = new
              /\ SubSeq(managed_commits', 1, Len(managed_commits)) = managed_commits
              /\ managed_commits'[new].parent1 = branches[current_branch]
              /\ managed_commits'[new].parent2 = NullCommit
              /\ managed_commits'[new].id \in DOMAIN commit_map'
              /\ commit_map'[managed_commits'[new].id] = new
              /\ current_branch' = current_branch
              /\ branches' = [branches EXCEPT ![current_branch] = new]
              /\ last'.ret = managed_commits'[new].id
      ]_vars

\* a commit made right from the staging a conflicted merge left: it holds
\* the conflict snapshot and its parent is the tip the merge started from
C10_Witness ==
    /\ last.op = "commit"
    /\ last.status = "ok"
    /\ branches[current_branch] = Len(managed_commits)
    /\ LET c == managed_commits[Len(managed_commits)]
       IN  /\ c.parent1 # NullCommit
           /\ c.parent2 = NullCommit
           /\ \E i \in 1..Len(c.files) :
                 Substr(GetBlobContent(blob_storage, c.files[i].hash), 0, 13)
                     = "<<<<<<< HEAD\n"

\* C11: after a successful commit the new commit's file list has one
\* lightweight entry (path, hash, empty content) per staged snapshot, in
\* staging insertion order, and the staging area is empty.
C11_CommitFileList ==
    [][(last'.op = "commit" /\ last'.status = "ok") =>
          LET c == managed_commits'[Len(managed_commits')]
          IN  /\ Len(managed_commits') = Len(managed_commits) + 1
              /\ Len(c.files) = Len(staged_files)
              /\ \A i \in 1..Len(staged_files) :
                    c.files[i] = [path |-> staged_files[i].path,
                                  content |-> "",
                                  hash |-> staged_files[i].hash]
              /\ staged_files' = <<>>
      ]_vars

\* scenario S1 with the two files added against name order: the first
\* commit on master holds b then a, has no parents, and staging is empty
C11_Witness ==
    /\ last.op = "commit"
    /\ last.status = "ok"
    /\ Len(managed_commits) = 1
    /\ current_branch = "master"
    /\ branches["master"] = 1
    /\ managed_commits[1].parent1 = NullCommit
    /\ managed_commits[1].parent2 = NullCommit
    /\ managed_commits[1].tree_hash # "empty_tree"
    /\ Len(managed_commits[1].files) = 2
    /\ managed_commits[1].files[1].path = "b"
    /\ managed_commits[1].files[2].path = "a"
    /\ managed_commits[1].files[1].content = ""
    /\ staged_files = <<>>

\* C12: commit on an empty staging area fails with EmptyStaging and changes
\* nothing: no commit or blob is stored, no tip moves, the current branch
\* and staging are unchanged.
C12_EmptyCommitRejected ==
    [][(last'.op = "commit" /\ Len(staged_files) = 0) =>
          /\ last'.status = "EmptyStaging"
          /\ UNCHANGED <<managed_commits, commit_map, blob_storage, branches,
                         current_branch, staged_files>>
      ]_vars

\* a commit was refused on a repository that already has commits and a
\* second branch
C12_Witness ==
    /\ last.op = "commit"
    /\ last.status = "EmptyStaging"
    /\ Len(managed_commits) > 0
    /\ "f" \in DOMAIN branches
    /\ staged_files = <<>>

(***************************************************************************)
(* Invariants of the object store.                                         *)
(***************************************************************************)
\* GraphManager::get_commit(id) finds a commit and that commit carries id
Retrievable(id) ==
    /\ id \in DOMAIN commit_map
    /\ commit_map[id] \in CommitPtrs
    /\ managed_commits[commit_map[id]].id = id

\* C13: every parent referenced by a stored commit, and every branch's
\* non-null tip, is a stored commit that get_commit finds by its id.
C13_ParentAndTipClosure ==
    /\ \A c \in CommitPtrs :
          \A p \in {managed_commits[c].parent1, managed_commits[c].parent2} :
              p # NullCommit =>
                  /\ p \in CommitPtrs
                  /\ Retrievable(managed_commits[p].id)
    /\ \A b \in DOMAIN branches :
          branches[b] # NullCommit =>
              /\ branches[b] \in CommitPtrs
              /\ Retrievable(managed_commits[branches[b]].id)

\* a merge commit with two parents is stored and two branches have
\* different tips
C13_Witness ==
    /\ \E c \in CommitPtrs :
          /\ managed_commits[c].parent1 # NullCommit
          /\ managed_commits[c].parent2 # NullCommit
    /\ "f" \in DOMAIN branches
    /\ branches["f"] # NullCommit
    /\ branches["master"] # branches["f"]

\* C14: every hash in any stored commit's file list is a key of the blob
\* store, also after clean merges and after commits that follow a
\* conflicted merge.
C14_BlobClosure ==
    \A c \in CommitPtrs :
        \A i \in 1..Len(managed_commits[c].files) :
            managed_commits[c].files[i].hash \in DOMAIN blob_storage

\* the commit that follows a conflicted merge: a plain commit of two staged
\* entries, one of them a content-less entry the merge engine took from a
\* tip, whose blob was stored by an earlier commit
C14_Witness ==
    /\ last.op = "commit"
    /\ last.status = "ok"
    /\ LET c == managed_commits[Len(managed_commits)]
       IN  /\ c.parent2 = NullCommit
           /\ Len(c.files) = 2
           /\ \E i \in 1..2 :
                 /\ \E d \in 1..(Len(managed_commits) - 1) :
                       \E j \in 1..Len(managed_commits[d].files) :
                           managed_commits[d].files[j] = c.files[i]
                 /\ c.files[i].hash \in DOMAIN blob_storage
                 /\ blob_storage[c.files[i].hash] # ""

\* C15: after any sequence of add, commit, checkout, create_branch and
\* merge operations and of StagingArea add_file, remove_file and clear
\* calls, no two staged snapshots have the same path.
C15_StagingPathUniqueness ==
    \A i \in 1..Len(staged_files), j \in 1..Len(staged_files) :
        staged_files[i].path = staged_files[j].path => i = j

\* an add of the path staged first, while a second path is staged behind
\* it: the snapshot was replaced in place
C15_Witness ==
    /\ last.op = "add"
    /\ Len(staged_files) = 2
    /\ staged_files[1].path = last.arg
    /\ staged_files[2].path # last.arg

(***************************************************************************)
(* Shape of the commit graph.                                              *)
(***************************************************************************)
\* the non-null parents of the commits of S
ParentsOf(commits, S) ==
    {p \in UNION {{commits[c].parent1, commits[c].parent2} : c \in S} :
        p # NullCommit}

\* the commits reached from S over at least one and at most n parent edges
RECURSIVE AncestorsWithin(_, _, _)
AncestorsWithin(commits, S, n) ==
    IF n = 0 THEN {}
    ELSE ParentsOf(commits, S)
            \cup AncestorsWithin(commits, ParentsOf(commits, S), n - 1)

\* the commits reachable from c over one or more parent edges
StrictAncestors(commits, c) == AncestorsWithin(commits, {c}, Len(commits))

\* C16: the commit graph is acyclic: every parent of a commit was stored
\* before the commit was created, and no commit is reachable from itself
\* over parent edges.
C16_Acyclic ==
    \A c \in CommitPtrs :
        /\ managed_commits[c].parent1 < c
        /\ managed_commits[c].parent2 < c
        /\ c \notin StrictAncestors(managed_commits, c)

\* a merge commit whose two parents have a common ancestor
C16_Witness ==
    \E c \in CommitPtrs :
        /\ managed_commits[c].parent1 # NullCommit
        /\ managed_commits[c].parent2 # NullCommit
        /\ StrictAncestors(managed_commits, managed_commits[c].parent1)
              \cap StrictAncestors(managed_commits, managed_commits[c].parent2) # {}

(***************************************************************************)
(* Properties of GraphAlgorithms::get_history_dfs and Repository::log.     *)
(***************************************************************************)
\* the non-null branch tips
Tips == {branches[b] : b \in DOMAIN branches} \ {NullCommit}

\* C17: for every branch tip, history_dfs(tip) holds exactly the commits
\* reachable from tip over parent1/parent2 edges, each exactly once, and
\* history_dfs(null) is empty.
C17_DfsCompleteness ==
    /\ GetHistoryDfs(managed_commits, NullCommit) = <<>>
    /\ \A tip \in Tips :
          LET history == GetHistoryDfs(managed_commits, tip)
          IN  /\ Range(history) = {tip} \cup StrictAncestors(managed_commits, tip)
              /\ \A i \in 1..Len(history), j \in 1..Len(history) :
                    history[i] = history[j] => i = j

\* C18: popping the stack history_dfs(tip) returns, as log does, yields the
\* commits newest to oldest: the first commit popped is tip itself and no
\* commit is popped after one of its own ancestors.
C18_HistoryNewestFirst ==
    (last.op = "log" /\ last.status = "ok") =>
        /\ Len(last.ret) > 0
        /\ last.ret[1] = branches[current_branch]
        /\ \A i \in 1..Len(last.ret), j \in 1..Len(last.ret) :
              i < j => last.ret[i] \notin StrictAncestors(managed_commits, last.ret[j])

(***************************************************************************)
(* Commit identifiers.                                                     *)
(***************************************************************************)
\* C19: a commit whose id is already in the object store is rejected: the
\* commit stored before stays the one get_commit(id) returns and the store
\* holds no second commit with that id.
C19_DuplicateIdRejected ==
    [][(/\ last'.op = "commit"
        /\ last'.status = "ok"
        /\ last'.ret \in DOMAIN commit_map) =>
           /\ last'.ret \in DOMAIN commit_map'
           /\ commit_map'[last'.ret] = commit_map[last'.ret]
           /\ Cardinality({c \in 1..Len(managed_commits') :
                              managed_commits'[c].id = last'.ret}) = 1
      ]_vars

\* C20: every commit created by commit() or merge() gets an id different
\* from the id of every commit already stored, for every sequence of
\* operations and every non-decreasing clock.
C20_FreshCommitId ==
    [][Len(managed_commits') = Len(managed_commits) + 1 =>
          \A c \in 1..Len(managed_commits) :
              managed_commits[c].id # managed_commits'[Len(managed_commits')].id
      ]_vars

\* ---------------------------------------------------------------------
\* C21: the object store is append-only and commits are immutable: every
\* step keeps each commit already stored at its place with the same id,
\* message, author, tree_hash, parents and file list; a step only ever adds
\* commits at the end.
C21_StoreAppendOnly ==
    [][/\ Len(managed_commits') >= Len(managed_commits)
       /\ \A i \in 1..Len(managed_commits) :
            managed_commits'[i] = managed_commits[i]]_vars

\* three commits are stored, the oldest one made before two later commits
\* and a merge attempt
C21_Witness ==
    /\ Len(managed_commits) >= 3
    /\ last.op = "merge"
    /\ managed_commits[1].parent1 = NullCommit
    /\ managed_commits[3].parent1 # NullCommit

\* ---------------------------------------------------------------------
\* C22: save_blob is first-writer-wins: a call for a hash that has no blob
\* stores the given content under it, a call for a hash that already has a
\* blob changes nothing, no call changes or removes the blob of another
\* hash, and get_blob_content returns the stored content, or the empty
\* string for a hash that was never saved.
C22_FirstWriterWins ==
    [][/\ \A h \in DOMAIN blob_storage :
            /\ h \in DOMAIN blob_storage'
            /\ blob_storage'[h] = blob_storage[h]
       /\ last'.op = "save_blob" =>
            IF last'.arg[1] \in DOMAIN blob_storage
            THEN blob_storage' = blob_storage
            ELSE /\ DOMAIN blob_storage' =
                        DOMAIN blob_storage \cup {last'.arg[1]}
                 /\ blob_storage'[last'.arg[1]] = last'.arg[2]
       /\ last'.op = "get_blob_content" =>
            /\ blob_storage' = blob_storage
            /\ last'.ret = IF last'.arg \in DOMAIN blob_storage
                           THEN blob_storage[last'.arg]
                           ELSE ""]_vars

\* a second save_blob for h1, with another content, has just been ignored
\* while h3 was never saved
C22_Witness ==
    /\ last.op = "save_blob"
    /\ last.arg = <<"h1", "y">>
    /\ "h1" \in DOMAIN blob_storage
    /\ blob_storage["h1"] = "x"
    /\ "h3" \notin DOMAIN blob_storage

\* ---------------------------------------------------------------------
\* C23: with an injective hash, two staging lists of distinct paths have
\* the same root digest exactly when they hold the same set of
\* (path, content) pairs, whatever the order in which the files were staged.
PairsOf(files) == {<<files[i].path, files[i].content>> : i \in 1..Len(files)}

C24_CreateBranchFailures ==
    [][last'.op = "create_branch" =>
         /\ branches[current_branch] = NullCommit
                => last'.status = "EmptyHead"
         /\ (/\ branches[current_branch] # NullCommit
             /\ last'.arg \in DOMAIN branches)
                => last'.status = "AlreadyExists"
         /\ last'.status \in {"EmptyHead", "AlreadyExists"}
                => UNCHANGED <<managed_commits, commit_map, blob_storage,
                               branches, current_branch, staged_files>>]_vars

\* create_branch("master") has just been refused on a repository with two
\* branches and a staged file
C24_Witness ==
    /\ last.op = "create_branch"
    /\ last.arg = "master"
    /\ last.status = "AlreadyExists"
    /\ DOMAIN branches = {"master", "f"}
    /\ Len(staged_files) > 0

\* ---------------------------------------------------------------------
\* C25: a successful create_branch(name) adds exactly one branch, name,
\* whose tip is the current branch's tip, keeps every other branch and tip
\* and does not switch the current branch; a commit moves no tip but the
\* current branch's, so later commits on the current branch leave the new
\* branch's tip where it was.
C25_CreateBranchAddsOne ==
    [][/\ (last'.op = "create_branch" /\ last'.status = "ok") =>
            /\ last'.arg \notin DOMAIN branches
            /\ DOMAIN branches' = DOMAIN branches \cup {last'.arg}
            /\ branches'[last'.arg] = branches[current_branch]
            /\ \A b \in DOMAIN branches : branches'[b] = branches[b]
            /\ current_branch' = current_branch
       /\ last'.op = "commit" =>
            /\ current_branch' = current_branch
            /\ DOMAIN branches' = DOMAIN branches
            /\ \A b \in DOMAIN branches \ {current_branch} :
                  branches'[b] = branches[b]]_vars

\* master has just advanced by one commit past the point where f was
\* created, and f still points to that point
C25_Witness ==
    /\ last.op = "commit"
    /\ last.status = "ok"
    /\ current_branch = "master"
    /\ "f" \in DOMAIN branches
    /\ branches["f"] # NullCommit
    /\ branches["f"] # branches["master"]
    /\ managed_commits[branches["master"]].parent1 = branches["f"]

\* ---------------------------------------------------------------------
\* C26: checkout(name) and merge(name) with a name that is no branch fail
\* with NotFound and leave the current branch, every tip, the object store
\* and the staging area unchanged.
C26_UnknownBranchNotFound ==
    [][(last'.op \in {"checkout", "merge"}
            /\ last'.arg \notin DOMAIN branches) =>
         /\ last'.status = "NotFound"
         /\ UNCHANGED <<managed_commits, commit_map, blob_storage, branches,
                        current_branch, staged_files>>]_vars

\* merge("f") has just been refused on a repository that has a commit and a
\* staged file but no branch f
C26_Witness ==
    /\ last.op = "merge"
    /\ last.arg = "f"
    /\ last.status = "NotFound"
    /\ "f" \notin DOMAIN branches
    /\ Len(managed_commits) > 0
    /\ Len(staged_files) > 0

\* ---------------------------------------------------------------------
\* C27: a successful checkout(name) makes name the current branch and
\* changes nothing else: branches, tips, object store and staging area are
\* kept, so what was staged before the switch is still staged on the new
\* branch.
C27_CheckoutOnlySwitches ==
    [][(last'.op = "checkout" /\ last'.arg \in DOMAIN branches) =>
         /\ last'.status = "ok"
         /\ current_branch' = last'.arg
         /\ UNCHANGED <<managed_commits, commit_map, blob_storage, branches,
                        staged_files>>]_vars

\* the repository has just switched to f, whose tip differs from master's,
\* with a file staged
C27_Witness ==
    /\ last.op = "checkout"
    /\ last.status = "ok"
    /\ current_branch = "f"
    /\ branches["f"] # branches["master"]
    /\ Len(staged_files) > 0

\* ---------------------------------------------------------------------
\* C28: a branch is always current: the repository without commits has
\* exactly the branch master, with a null tip, checked out, and in every
\* state the current branch is one of the existing branches, so update_head
\* always finds a branch to move.
C28_BranchAlwaysCurrent ==
    /\ current_branch \in DOMAIN branches
    /\ "master" \in DOMAIN branches
    /\ Len(managed_commits) = 0 =>
          /\ DOMAIN branches = {"master"}
          /\ branches["master"] = NullCommit
          /\ current_branch = "master"

\* a commit has just moved the tip of f, the current branch
C28_Witness ==
    /\ last.op = "commit"
    /\ last.status = "ok"
    /\ current_branch = "f"
    /\ branches["f"] = Len(managed_commits)
    /\ branches["f"] # branches["master"]

\* ---------------------------------------------------------------------
\* C29: add_file of a path that is already staged replaces its snapshot in
\* place, every path keeping its position and every other entry kept as it
\* is; add_file of a new path appends it behind the entries staged before.
C29_StagingUpsertOrder ==
    [][(last'.op = "add" /\ last'.status = "ok") =>
         IF last'.arg \in PathsOf(staged_files)
         THEN /\ Len(staged_files') = Len(staged_files)
              /\ \A i \in 1..Len(staged_files) :
                    /\ staged_files'[i].path = staged_files[i].path
                    /\ staged_files[i].path # last'.arg
                          => staged_files'[i] = staged_files[i]
         ELSE /\ Len(staged_files') = Len(staged_files) + 1
              /\ SubSeq(staged_files', 1, Len(staged_files)) = staged_files
              /\ staged_files'[Len(staged_files')].path = last'.arg]_vars

\* a has just been staged again with its second content and is still in
\* front of b, staged after it
C29_Witness ==
    /\ last.op = "add"
    /\ last.arg = "a"
    /\ staged_files = <<NewFile("a", "2"), NewFile("b", "1")>>

\* ---------------------------------------------------------------------
\* C30: the list merge_commits returns holds first the outcomes of ours'
\* files, in ours' order, then the outcomes of theirs' files whose path is
\* not in ours, in theirs' order; no path is in it twice.
IndexOfPath(files, path) ==
    CHOOSE i \in 1..Len(files) : files[i].path = path

\* rank of a path in "ours' files, then theirs' files"
MergeRank(ours_files, theirs_files, path) ==
    IF path \in PathsOf(ours_files)
    THEN IndexOfPath(ours_files, path)
    ELSE Len(ours_files) + IndexOfPath(theirs_files, path)

C30_MergeOutputOrder ==
    last.op = "merge_commits" =>
        LET ours_files == managed_commits[last.arg[1]].files
            theirs_files == managed_commits[last.arg[2]].files
        IN  /\ \A i \in 1..Len(last.ret) :
                  last.ret[i].path \in
                      PathsOf(ours_files) \cup PathsOf(theirs_files)
            /\ \A i, j \in 1..Len(last.ret) :
                  i < j => MergeRank(ours_files, theirs_files, last.ret[i].path)
                             < MergeRank(ours_files, theirs_files,
                                         last.ret[j].path)

\* ours holds c then a, theirs holds b then c: the result lists c, a, b
C30_Witness ==
    /\ last.op = "merge_commits"
    /\ [i \in 1..Len(managed_commits[last.arg[1]].files) |->
           managed_commits[last.arg[1]].files[i].path] = <<"c", "a">>
    /\ [i \in 1..Len(managed_commits[last.arg[2]].files) |->
           managed_commits[last.arg[2]].files[i].path] = <<"b", "c">>
    /\ [i \in 1..Len(last.ret) |-> last.ret[i].path] = <<"c", "a", "b">>

\* ---------------------------------------------------------------------
\* Base-less merges.
\* the last call of merge_commits found no merge base
Baseless ==
    /\ last.op = "merge_commits"
    /\ FindMergeBase(managed_commits, last.arg[1], last.arg[2]) = NullCommit

OursFiles == managed_commits[last.arg[1]].files
TheirsFiles == managed_commits[last.arg[2]].files

\* C31: when find_merge_base(ours, theirs) is null, the outcome for every
\* path is one of the decision table's last two rows: a path only in theirs
\* is taken from theirs, a path only in ours is taken from ours.
C31_BaselessLastTwoRows ==
    Baseless =>
        \A p \in PathsOf(OursFiles) \cup PathsOf(TheirsFiles) :
            \/ /\ p \notin PathsOf(OursFiles)
               /\ p \in PathsOf(last.ret)
               /\ EntryFor(last.ret, p) = EntryFor(TheirsFiles, p)
            \/ /\ p \notin PathsOf(TheirsFiles)
               /\ p \in PathsOf(last.ret)
               /\ EntryFor(last.ret, p) = EntryFor(OursFiles, p)

\* C31, amended: when find_merge_base(ours, theirs) is null, every path of
\* either side is in the result once; a path only in ours or only in theirs
\* is taken from that side, a path both sides hold with the same hash is
\* taken from ours, all without a report line; a path both sides hold with
\* different hashes is a Content conflict.
C31_BaselessOutcomes ==
    Baseless =>
        /\ PathsOf(last.ret) = PathsOf(OursFiles) \cup PathsOf(TheirsFiles)
        /\ Len(last.ret) = Cardinality(PathsOf(last.ret))
        /\ \A p \in PathsOf(last.ret) :
              IF p \notin PathsOf(OursFiles)
              THEN /\ EntryFor(last.ret, p) = EntryFor(TheirsFiles, p)
                   /\ \A i \in 1..Len(last.conflict_msg) :
                         last.conflict_msg[i] # "CONFLICT (Content): " \o p
              ELSE IF \/ p \notin PathsOf(TheirsFiles)
                      \/ EntryFor(TheirsFiles, p).hash = EntryFor(OursFiles, p).hash
              THEN /\ EntryFor(last.ret, p) = EntryFor(OursFiles, p)
                   /\ \A i \in 1..Len(last.conflict_msg) :
                         last.conflict_msg[i] # "CONFLICT (Content): " \o p
              ELSE /\ EntryFor(last.ret, p) =
                         NewFile(p, ConflictText(blob_storage,
                                                 EntryFor(OursFiles, p).hash,
                                                 EntryFor(TheirsFiles, p).hash,
                                                 managed_commits[last.arg[2]].id))
                   /\ Count(last.conflict_msg, "CONFLICT (Content): " \o p) = 1
        /\ \A i \in 1..Len(last.conflict_msg) :
              \E p \in PathsOf(last.ret) :
                  last.conflict_msg[i] = "CONFLICT (Content): " \o p

\* a base-less merge of a, b against a, c: a differs and is a Content
\* conflict, b and c are taken over
C31_Witness ==
    /\ Baseless
    /\ [i \in 1..Len(last.ret) |-> last.ret[i].path] = <<"a", "b", "c">>
    /\ last.conflict_msg = <<"CONFLICT (Content): a">>
    /\ last.ret[2] = OursFiles[2]
    /\ last.ret[3] = TheirsFiles[2]

\* ---------------------------------------------------------------------
\* Termination of the graph walks.
AllIds == {managed_commits[i].id : i \in 1..Len(managed_commits)}

\* a natural number that bounds the loop iterations a running call has
\* left: each id moves into the visited set at most once and each stack or
\* queue entry is taken out once; the first loop of find_merge_base ranks
\* above the second
WalkMeasure ==
    IF last.status # "running" THEN 0
    ELSE IF last.op = "get_history_dfs"
    THEN 1 + 2 * Cardinality(AllIds \ last.ret.visited) + Len(last.ret.st)
    ELSE (IF last.ret.phase = "ancestors" THEN 100 ELSE 0)
         + 1 + 2 * Cardinality(AllIds \ last.ret.seen) + Len(last.ret.q)

\* C32: history_dfs and find_merge_base terminate on every finite commit
\* graph, one whose parent edges contain a cycle included: every step of a
\* running call lowers a natural-number measure, so the call reaches its
\* return; history_dfs then returns each commit id at most once, and both
\* return what the walk over the whole graph computes.
C32_WalksTerminate ==
    [][/\ last.status = "running" =>
            /\ last'.op = last.op
            /\ last'.arg = last.arg
            /\ WalkMeasure' < WalkMeasure
       /\ (last'.op = "get_history_dfs" /\ last'.status = "done") =>
            /\ \A i, j \in 1..Len(last'.ret) :
                  managed_commits[last'.ret[i]].id
                      = managed_commits[last'.ret[j]].id => i = j
            /\ last'.ret = GetHistoryDfs(managed_commits, last'.arg)
       /\ (last'.op = "find_merge_base" /\ last'.status = "done") =>
            last'.ret = FindMergeBase(managed_commits, last'.arg[1],
                                      last'.arg[2])]_vars

\* history_dfs has returned the three commits of a cycle 1 -> 2 -> 3 -> 1
C32_Witness ==
    /\ last.op = "get_history_dfs"
    /\ last.status = "done"
    /\ Len(managed_commits) = 3
    /\ managed_commits[1].parent1 = 2
    /\ managed_commits[2].parent1 = 3
    /\ managed_commits[3].parent1 = 1
    /\ Len(last.ret) = 3

\* ---------------------------------------------------------------------
\* the content a file entry's hash was computed from: File::calculate_hash
\* hashes the content followed by the path
HashedContent(entry) ==
    SubSeq(entry.hash, 2, Len(entry.hash) - 1 - Len(entry.path))

\* C33: for every file entry (path, hash) of every stored commit,
\* get_blob(hash) returns the content that was staged for that path when the
\* entry's hash was computed.
C33_BlobRoundTrip ==
    \A c \in 1..Len(managed_commits) :
        \A i \in 1..Len(managed_commits[c].files) :
            GetBlobContent(blob_storage, managed_commits[c].files[i].hash)
                = HashedContent(managed_commits[c].files[i])

\* ---------------------------------------------------------------------
\* C34: fast-forward merges never conflict: when the current tip is an
\* ancestor of the named branch's tip, or the named branch's tip an ancestor
\* of the current tip, merge produces an empty conflict report.
C34_FastForwardNeverConflicts ==
    [][\A n \in BranchNames :
         (/\ MergeRuns(n)
          /\ \/ branches[current_branch]
                    \in StrictAncestors(managed_commits, branches[n])
             \/ branches[n]
                    \in StrictAncestors(managed_commits, branches[current_branch]))
            => last'.conflict_msg = <<>>]_vars

\* ---------------------------------------------------------------------
\* C35: merging an already-merged branch changes nothing: when the named
\* branch's tip is a proper ancestor of the current tip, merge(name) creates
\* no commit and leaves the current branch's tip unchanged.
C35_MergedBranchNoOp ==
    [][\A n \in BranchNames :
         (/\ MergeRuns(n)
          /\ branches[n] \in StrictAncestors(managed_commits,
                                             branches[current_branch]))
            => /\ managed_commits' = managed_commits
               /\ branches' = branches]_vars

\* C35, amended: when the named branch's tip is a proper ancestor of the
\* current tip and has another id, merge(name) never conflicts: it creates
\* exactly one merge commit with the parents (current tip, named tip) and
\* moves the current branch's tip, and no other tip, to it.
C35_MergedBranchMergesAgain ==
    [][\A n \in BranchNames :
         (/\ MergeRuns(n)
          /\ branches[n] \in StrictAncestors(managed_commits,
                                             branches[current_branch]))
            => /\ last'.conflict_msg = <<>>
               /\ last'.status = "Merge successful."
               /\ Len(managed_commits') = Len(managed_commits) + 1
               /\ SubSeq(managed_commits', 1, Len(managed_commits))
                     = managed_commits
               /\ managed_commits'[Len(managed_commits')].parent1
                     = branches[current_branch]
               /\ managed_commits'[Len(managed_commits')].parent2 = branches[n]
               /\ branches' = [branches EXCEPT ![current_branch] =
                                                  Len(managed_commits')]]_vars

\* f has just been merged into master a second time: the tip of master is
\* a merge commit on top of the merge commit that already had f's tip as
\* its second parent
C35_Witness ==
    /\ last.op = "merge"
    /\ last.arg = "f"
    /\ last.status = "Merge successful."
    /\ current_branch = "master"
    /\ LET tip == managed_commits[branches["master"]]
       IN  /\ tip.parent2 = branches["f"]
           /\ tip.parent1 # NullCommit
           /\ managed_commits[tip.parent1].parent2 = branches["f"]

\* ---------------------------------------------------------------------
\* C36: every stored commit, made by commit() or by merge(), has a
\* non-empty file list and a tree_hash other than "empty_tree".
C36_NoEmptyCommit ==
    \A c \in CommitPtrs :
        /\ Len(managed_commits[c].files) > 0
        /\ managed_commits[c].tree_hash # "empty_tree"

\* ---------------------------------------------------------------------
\* the (path, blob hash) pairs of a file list
EntriesOf(files) == {<<files[i].path, files[i].hash>> : i \in 1..Len(files)}

\* C37: a commit's tree_hash identifies its content: two stored commits
\* whose file lists differ in a path or in a file's blob hash have different
\* tree_hash values.
C37_TreeHashIdentifiesContent ==
    \A c \in CommitPtrs, d \in CommitPtrs :
        EntriesOf(managed_commits[c].files) # EntriesOf(managed_commits[d].files)
            => managed_commits[c].tree_hash # managed_commits[d].tree_hash

\* ---------------------------------------------------------------------
\* C38: branch tips only advance, and only on the current branch: a step
\* changes at most the current branch's tip, the new tip is a commit whose
\* parent1 is the old tip, and no branch disappears or returns to a null tip.
C38_TipsOnlyAdvance ==
    [][\A b \in DOMAIN branches :
         /\ b \in DOMAIN branches'
         /\ branches'[b] # branches[b] =>
               /\ b = current_branch
               /\ branches'[b] # NullCommit
               /\ managed_commits'[branches'[b]].parent1 = branches[b]]_vars

\* a clean merge has just moved the tip of f to a merge commit on top of
\* the old tip, with master's tip as second parent, master staying in place
C38_Witness ==
    /\ last.op = "merge"
    /\ last.status = "Merge successful."
    /\ current_branch = "f"
    /\ branches["f"] = Len(managed_commits)
    /\ managed_commits[branches["f"]].parent1 # NullCommit
    /\ managed_commits[branches["f"]].parent2 = branches["master"]

\* ---------------------------------------------------------------------
\* C39: single root: at most one stored commit has no parent, it is the
\* first commit and every other stored commit descends from it; only master
\* can be unborn; find_merge_base of any two branch tips is non-null.
C39_SingleRoot ==
    /\ \A c \in CommitPtrs :
          IF c = 1
          THEN managed_commits[c].parent1 = NullCommit
          ELSE /\ managed_commits[c].parent1 # NullCommit
               /\ 1 \in StrictAncestors(managed_commits, c)
    /\ \A b \in DOMAIN branches : branches[b] = NullCommit => b = "master"
    /\ \A t1 \in Tips, t2 \in Tips :
          FindMergeBase(managed_commits, t1, t2) # NullCommit

\* master and f have diverged from the root by a commit each and
\* find_merge_base of their tips is the root
C39_Witness ==
    /\ DOMAIN branches = {"master", "f"}
    /\ branches["master"] # NullCommit
    /\ branches["f"] # NullCommit
    /\ managed_commits[branches["master"]].parent1 = 1
    /\ managed_commits[branches["f"]].parent1 = 1
    /\ branches["master"] # branches["f"]
    /\ FindMergeBase(managed_commits, branches["master"], branches["f"]) = 1

\* ---------------------------------------------------------------------
\* the paths the report has a conflict line for
ConflictedPaths(result) ==
    {p \in PathsOf(result.files) :
        \E kind \in ConflictKinds :
            Count(result.conflict_msg, "CONFLICT (" \o kind \o "): " \o p) > 0}

\* C40: merge is symmetric in its verdict: for any two populated branches,
\* the merge engine run with (ours, theirs) = (A.tip, B.tip) and with
\* (B.tip, A.tip) yields the same set of result paths and the same set of
\* conflicted paths.
C40_MergeSymmetric ==
    \A t1 \in Tips, t2 \in Tips :
        managed_commits[t1].id # managed_commits[t2].id =>
            LET ab == MergeCommits(managed_commits, blob_storage, t1, t2)
                ba == MergeCommits(managed_commits, blob_storage, t2, t1)
            IN  /\ PathsOf(ab.files) = PathsOf(ba.files)
                /\ ConflictedPaths(ab) = ConflictedPaths(ba)

====
